---- MODULE Spec2Model ----
(***************************************************************************)
(* Model of DisplayData (src/solar.py): the day-scoped accumulator of      *)
(* solar samples, its two ingest entry points append_solar_value and       *)
(* append_solar_value_normalized, the rollover reset and the forecast      *)
(* merge update_solar_prediction_if_needed.                                *)
(*                                                                         *)
(* Python attribute lookup is modelled as it works: an attribute that was  *)
(* never assigned on the instance is read from (and mutated in place on)   *)
(* the class.  Numbers produced by "/" are kept as fractions [n, d].       *)
(***************************************************************************)
EXTENDS Integers, Sequences, FiniteSets, TLC

\* ------------------------------------------------------------------ bounds

\* Number of ingest calls explored in one run.
MaxCalls == 3

\* Number of days the minute-by-minute stream lasts.
MaxDays == 2

\* Number of messages handled in one run of the message handler.
MaxMessages == 3

\* ------------------------------------------------------- program constants

TOPIC_SOLAR == "pvpanelendak/PUB/CH1"

TOPIC_NETTO == "244cab25438c/PUB/CH0"

TOPIC_IMPORT == "244cab25438c/PUB/CH2"

TOPIC_EXPORT == "244cab25438c/PUB/CH3"

MINUTES_IN_A_DAY == 24 * 60

MAX_SOLAR_POWER == 8000

\* Python's None, as the value of last_update_time before the first refresh.
None == -1

\* range(0, 24): the hours of a day, the indices of the hourly lists.
Hours == 0 .. 23

\* ------------------------------------------------------------------ inputs

\* The instances of DisplayData: "A" is the one __main__ constructs, "B" a
\* second one a caller may construct beside it.
Ids == {"A", "B"}

\* datetime values handed to the ingest operations (hour, minute).
Timestamps ==
    { [hour |-> 0, minute |-> 0],
      [hour |-> 0, minute |-> 1],
      [hour |-> 1, minute |-> 0] }

\* Instantaneous watts.
Values == {0, 100, 4000}

\* minutes_between_updates as __main__ passes it: 5 with --color, else 1.
Intervals == {1, 5}

\* What the forecast provider hands back: the fetch raises (ok = FALSE), or
\* estimations.watts is a mapping, iterated in order, of timestamp -> est.
\* today: timestamp.date() == date.today();  numeric: est / MAX_SOLAR_POWER
\* is defined (a non-number raises TypeError inside the try block).
WattsOtherDay ==
    << [today |-> FALSE, hour |-> 0, minute |-> 0, est |-> 800, numeric |-> TRUE] >>

WattsToday ==
    << [today |-> TRUE, hour |-> 0, minute |-> 0, est |-> 4000, numeric |-> TRUE],
       [today |-> TRUE, hour |-> 1, minute |-> 30, est |-> 100, numeric |-> TRUE],
       [today |-> FALSE, hour |-> 1, minute |-> 0, est |-> 800, numeric |-> TRUE] >>

WattsMalformed ==
    << [today |-> TRUE, hour |-> 1, minute |-> 0, est |-> 0, numeric |-> FALSE] >>

FetchFailed == [ok |-> FALSE, watts |-> << >>]

ProviderResults ==
    { FetchFailed }
      \cup { [ok |-> TRUE, watts |-> w] : w \in {WattsOtherDay, WattsToday, WattsMalformed} }

\* ------------------------------------------------------------------- state

VARIABLES
    obj,    \* obj[i]: the instance attributes of DisplayData instance i
    cls,    \* the class attributes of DisplayData (shared by all instances)
    entry,  \* the ingest entry point the caller drives the accumulator through
    log,    \* the ingest calls made so far, with what each returned and did
    image,  \* the DashImage: the bar heights set by draw_graph, the shows made
    step,   \* the operation performed last, on which instance, and the message count
    clock   \* the minute-by-minute sample stream: the next sample, refreshes per day

vars == << obj, cls, entry, log, image, step, clock >>

\* The value of a Python "/" division.
Frac(n, d) == [n |-> n, d |-> d]

Zero == Frac(0, 1)

\* The list attributes declared on the class body.
ListAttrs ==
    { "solar_values_minute", "solar_values_power",
      "solar_predictions_minute", "solar_predictions_power" }

\* self.<attr>: the instance attribute when one was assigned, else the class's.
Get(w, self, attr) ==
    IF attr \in w.obj[self].own THEN w.obj[self][attr] ELSE w.cls[attr]

\* self.<attr> = val
SetAttr(w, self, attr, val) ==
    [w EXCEPT !.obj[self] = [@ EXCEPT ![attr] = val, !.own = @ \cup {attr}]]

\* self.<attr>.append(x): mutates the list the lookup finds, in place.
AppendAttr(w, self, attr, x) ==
    IF attr \in w.obj[self].own
    THEN [w EXCEPT !.obj[self][attr] = Append(@, x)]
    ELSE [w EXCEPT !.cls[attr] = Append(@, x)]

RECURSIVE Repeat(_, _)
Repeat(x, n) == IF n = 0 THEN << >> ELSE Append(Repeat(x, n - 1), x)

\* The class body of DisplayData.
ClassBody ==
    [ solar_values_minute |-> << >>,
      solar_values_power |-> << >>,
      solar_hourly_prediction_values |-> << >>,
      solar_predictions_minute |-> << >>,
      solar_predictions_power |-> << >> ]

NotConstructed == [constructed |-> FALSE]

\* reset_hourly_values: a fresh list of 24 empty buckets on the instance, and
\* 24 more zeros appended to solar_hourly_prediction_values, which is never
\* assigned on the instance and so is the class's list.
reset_hourly_values(w, self) ==
    [w EXCEPT
        !.obj[self].solar_hourly_values = Repeat(<< >>, Cardinality(Hours)),
        !.cls.solar_hourly_prediction_values = @ \o Repeat(Zero, Cardinality(Hours))]

\* Mutant of Construct: last_solar_time starts at the bottom of the range.
Construct_StartsAtMidnight(w, self, forecast, minutes_between_updates) ==
    reset_hourly_values(
        [w EXCEPT !.obj[self] =
            [ constructed |-> TRUE,
              last_solar_time |-> 0,
              last_update_time |-> None,
              forecast |-> forecast,
              minutes_between_updates |-> minutes_between_updates,
              netto_current |-> 0,
              export_current |-> 0,
              export_today |-> 0,
              import_current |-> 0,
              import_today |-> 0,
              solar_current |-> 0,
              solar_today |-> 0,
              solar_hourly_values |-> << >>,
              own |-> {},
              solar_values_minute |-> << >>,
              solar_values_power |-> << >>,
              solar_predictions_minute |-> << >>,
              solar_predictions_power |-> << >> ]],
        self)


\* DisplayData.__init__
Construct(w, self, forecast, minutes_between_updates) ==
    reset_hourly_values(
        [w EXCEPT !.obj[self] =
            [ constructed |-> TRUE,
              last_solar_time |-> MINUTES_IN_A_DAY + 1,
              last_update_time |-> None,
              forecast |-> forecast,
              minutes_between_updates |-> minutes_between_updates,
              netto_current |-> 0,
              export_current |-> 0,
              export_today |-> 0,
              import_current |-> 0,
              import_today |-> 0,
              solar_current |-> 0,
              solar_today |-> 0,
              solar_hourly_values |-> << >>,
              own |-> {},
              solar_values_minute |-> << >>,
              solar_values_power |-> << >>,
              solar_predictions_minute |-> << >>,
              solar_predictions_power |-> << >> ]],
        self)

\* (timestamp.hour * 60) + timestamp.minute
MinuteInTheDay(timestamp) == (timestamp.hour * 60) + timestamp.minute

\* Mutant of IsNewDay: a sample in the minute of the previous one starts a
\* new day too.
IsNewDay_OrSameMinute(minute_in_the_day, last_solar_time) ==
    minute_in_the_day <= last_solar_time

\* "new day started": the test that guards the reset branch of both ingests.
IsNewDay(minute_in_the_day, last_solar_time) == minute_in_the_day < last_solar_time

\* Mutant of ProcessEstimations: the hourly prediction is set for every entry
\* dated today, whatever its minute.
RECURSIVE ProcessEstimations_AnyMinute(_, _, _, _)
ProcessEstimations_AnyMinute(w, self, watts, i) ==
    IF i > Len(watts) THEN [w |-> w, raised |-> FALSE]
    ELSE LET e == watts[i] IN
         IF ~e.today THEN ProcessEstimations_AnyMinute(w, self, watts, i + 1)
         ELSE LET minute_in_the_day == (e.hour * 60) + 30
                  w1 == AppendAttr(w, self, "solar_predictions_minute",
                                   Frac(minute_in_the_day, MINUTES_IN_A_DAY))
              IN IF ~e.numeric THEN [w |-> w1, raised |-> TRUE]
                 ELSE LET w2 == AppendAttr(w1, self, "solar_predictions_power",
                                           Frac(e.est, MAX_SOLAR_POWER))
                          w3 == [w2 EXCEPT !.cls.solar_hourly_prediction_values[e.hour + 1] =
                                               Frac(e.est, MAX_SOLAR_POWER)]
                      IN ProcessEstimations_AnyMinute(w3, self, watts, i + 1)

\* Mutant of ProcessEstimations: the point is put on the timestamp's own
\* minute, not on the half hour mark.
RECURSIVE ProcessEstimations_OwnMinute(_, _, _, _)
ProcessEstimations_OwnMinute(w, self, watts, i) ==
    IF i > Len(watts) THEN [w |-> w, raised |-> FALSE]
    ELSE LET e == watts[i] IN
         IF ~e.today THEN ProcessEstimations_OwnMinute(w, self, watts, i + 1)
         ELSE LET minute_in_the_day == (e.hour * 60) + e.minute
                  w1 == AppendAttr(w, self, "solar_predictions_minute",
                                   Frac(minute_in_the_day, MINUTES_IN_A_DAY))
              IN IF ~e.numeric THEN [w |-> w1, raised |-> TRUE]
                 ELSE LET w2 == AppendAttr(w1, self, "solar_predictions_power",
                                           Frac(e.est, MAX_SOLAR_POWER))
                          w3 == IF e.minute = 0
                                THEN [w2 EXCEPT !.cls.solar_hourly_prediction_values[e.hour + 1] =
                                                    Frac(e.est, MAX_SOLAR_POWER)]
                                ELSE w2
                      IN ProcessEstimations_OwnMinute(w3, self, watts, i + 1)

\* The loop over estimations.watts.items(), from entry i on.  An entry whose
\* est is no number raises after its minute was appended; the except clause
\* of the caller catches it and nothing is rolled back.
RECURSIVE ProcessEstimations(_, _, _, _)
ProcessEstimations(w, self, watts, i) ==
    IF i > Len(watts) THEN [w |-> w, raised |-> FALSE]
    ELSE LET e == watts[i] IN
         IF ~e.today THEN ProcessEstimations(w, self, watts, i + 1)
         ELSE LET minute_in_the_day == (e.hour * 60) + 30
                  w1 == AppendAttr(w, self, "solar_predictions_minute",
                                   Frac(minute_in_the_day, MINUTES_IN_A_DAY))
              IN IF ~e.numeric THEN [w |-> w1, raised |-> TRUE]
                 ELSE LET w2 == AppendAttr(w1, self, "solar_predictions_power",
                                           Frac(e.est, MAX_SOLAR_POWER))
                          w3 == IF e.minute = 0
                                THEN [w2 EXCEPT !.cls.solar_hourly_prediction_values[e.hour + 1] =
                                                    Frac(e.est, MAX_SOLAR_POWER)]
                                ELSE w2
                      IN ProcessEstimations(w3, self, watts, i + 1)

\* Mutant of update_solar_prediction_if_needed: no try/except, an exception
\* of the fetch or of the loop leaves the method.
update_solar_prediction_uncaught(w, self, provider) ==
    IF (~w.obj[self].forecast) \/ Len(Get(w, self, "solar_predictions_minute")) > 0
    THEN [w |-> w, called |-> FALSE, failed |-> FALSE, raised |-> FALSE]
    ELSE IF ~provider.ok
         THEN [w |-> w, called |-> TRUE, failed |-> TRUE, raised |-> TRUE]
         ELSE LET r == ProcessEstimations(w, self, provider.watts, 1)
              IN [w |-> r.w, called |-> TRUE, failed |-> r.raised, raised |-> r.raised]

\* Mutant of update_solar_prediction_if_needed: the forecast flag is not
\* looked at.
update_solar_prediction_unconditional(w, self, provider) ==
    IF Len(Get(w, self, "solar_predictions_minute")) > 0
    THEN [w |-> w, called |-> FALSE, failed |-> FALSE, raised |-> FALSE]
    ELSE IF ~provider.ok
         THEN [w |-> w, called |-> TRUE, failed |-> TRUE, raised |-> FALSE]
         ELSE LET r == ProcessEstimations(w, self, provider.watts, 1)
              IN [w |-> r.w, called |-> TRUE, failed |-> r.raised, raised |-> FALSE]

\* update_solar_prediction_if_needed.  called: the provider was called;
\* failed: an exception was raised inside the try block (and caught);
\* raised: an exception left the method.
update_solar_prediction_if_needed(w, self, provider) ==
    IF (~w.obj[self].forecast) \/ Len(Get(w, self, "solar_predictions_minute")) > 0
    THEN [w |-> w, called |-> FALSE, failed |-> FALSE, raised |-> FALSE]
    ELSE IF ~provider.ok
         THEN [w |-> w, called |-> TRUE, failed |-> TRUE, raised |-> FALSE]
         ELSE LET r == ProcessEstimations(w, self, provider.watts, 1)
              IN [w |-> r.w, called |-> TRUE, failed |-> r.raised, raised |-> FALSE]

NotCalled(w) == [w |-> w, called |-> FALSE, failed |-> FALSE, raised |-> FALSE]

\* self.solar_hourly_values[timestamp.hour].append(value)
AppendHourly(w, self, timestamp, value) ==
    [w EXCEPT !.obj[self].solar_hourly_values[timestamp.hour + 1] = Append(@, value)]

\* Mutant of StoreSample: the reset branch leaves the forecast series of the
\* previous day in place.
StoreSample_KeepsForecast(w, self, minute_in_the_day, x, y) ==
    IF IsNewDay(minute_in_the_day, w.obj[self].last_solar_time)
    THEN LET w1 == reset_hourly_values(w, self)
             w4 == SetAttr(w1, self, "solar_values_minute", << x >>)
         IN SetAttr(w4, self, "solar_values_power", << y >>)
    ELSE LET w1 == AppendAttr(w, self, "solar_values_minute", x)
         IN AppendAttr(w1, self, "solar_values_power", y)

\* Mutant of StoreSample: the rollover leaves the hourly buckets as they are.
StoreSample_KeepsBuckets(w, self, minute_in_the_day, x, y) ==
    IF IsNewDay(minute_in_the_day, w.obj[self].last_solar_time)
    THEN LET w2 == SetAttr(w, self, "solar_predictions_minute", << >>)
             w3 == SetAttr(w2, self, "solar_predictions_power", << >>)
             w4 == SetAttr(w3, self, "solar_values_minute", << x >>)
         IN SetAttr(w4, self, "solar_values_power", << y >>)
    ELSE LET w1 == AppendAttr(w, self, "solar_values_minute", x)
         IN AppendAttr(w1, self, "solar_values_power", y)

\* The if/else of both ingests: reset the day's series to the new sample, or
\* append it to today's series.
StoreSample(w, self, minute_in_the_day, x, y) ==
    IF IsNewDay(minute_in_the_day, w.obj[self].last_solar_time)
    THEN LET w1 == reset_hourly_values(w, self)
             w2 == SetAttr(w1, self, "solar_predictions_minute", << >>)
             w3 == SetAttr(w2, self, "solar_predictions_power", << >>)
             w4 == SetAttr(w3, self, "solar_values_minute", << x >>)
         IN SetAttr(w4, self, "solar_values_power", << y >>)
    ELSE LET w1 == AppendAttr(w, self, "solar_values_minute", x)
         IN AppendAttr(w1, self, "solar_values_power", y)

\* append_solar_value.  ret: the value returned; raised: an exception left
\* the call (the statements after the raising one did not run).
append_solar_value(w, self, timestamp, value, provider) ==
    LET minute_in_the_day == MinuteInTheDay(timestamp)
        o == w.obj[self]
        update_required ==
            \/ o.last_update_time = None
            \/ minute_in_the_day >= o.last_update_time + o.minutes_between_updates
        w1 == StoreSample(w, self, minute_in_the_day,
                          Frac(minute_in_the_day, 1), Frac(value, 1))
        w2 == AppendHourly(w1, self, timestamp, value)
        u == IF update_required
             THEN update_solar_prediction_if_needed(w2, self, provider)
             ELSE NotCalled(w2)
        w3 == IF update_required
              THEN [u.w EXCEPT !.obj[self].last_update_time = minute_in_the_day]
              ELSE u.w
        w4 == [w3 EXCEPT !.obj[self].last_solar_time = minute_in_the_day]
    IN [ w |-> IF u.raised THEN u.w ELSE w4,
         ret |-> update_required /\ ~u.raised,
         raised |-> u.raised, called |-> u.called, failed |-> u.failed ]

\* Mutant of append_solar_value_normalized: the power is stored as it came.
append_solar_value_normalized_RawPower(w, self, timestamp, value, provider) ==
    LET minute_in_the_day == MinuteInTheDay(timestamp)
        o == w.obj[self]
        update_required == minute_in_the_day > o.last_solar_time
        w1 == StoreSample(w, self, minute_in_the_day,
                          Frac(minute_in_the_day, MINUTES_IN_A_DAY),
                          Frac(value, 1))
        w2 == AppendHourly(w1, self, timestamp, value)
        w3 == [w2 EXCEPT !.obj[self].last_solar_time = minute_in_the_day]
        u == update_solar_prediction_if_needed(w3, self, provider)
    IN [ w |-> u.w,
         ret |-> update_required /\ ~u.raised,
         raised |-> u.raised, called |-> u.called, failed |-> u.failed ]

\* append_solar_value_normalized
append_solar_value_normalized(w, self, timestamp, value, provider) ==
    LET minute_in_the_day == MinuteInTheDay(timestamp)
        o == w.obj[self]
        update_required == minute_in_the_day > o.last_solar_time
        w1 == StoreSample(w, self, minute_in_the_day,
                          Frac(minute_in_the_day, MINUTES_IN_A_DAY),
                          Frac(value, MAX_SOLAR_POWER))
        w2 == AppendHourly(w1, self, timestamp, value)
        w3 == [w2 EXCEPT !.obj[self].last_solar_time = minute_in_the_day]
        u == update_solar_prediction_if_needed(w3, self, provider)
    IN [ w |-> u.w,
         ret |-> update_required /\ ~u.raised,
         raised |-> u.raised, called |-> u.called, failed |-> u.failed ]

\* ------------------------------------------------------------- transitions

World == [obj |-> obj, cls |-> cls]

\* What one ingest call leaves in the log.
LogEntry(w, self, timestamp, value, provider, r) ==
    [ self |-> self,
      timestamp |-> timestamp,
      value |-> value,
      rollover |-> IsNewDay(MinuteInTheDay(timestamp), w.obj[self].last_solar_time),
      ret |-> r.ret,
      raised |-> r.raised,
      called |-> r.called,
      failed |-> r.failed,
      provider |-> IF r.called THEN provider ELSE FetchFailed ]

\* sum(lst)
RECURSIVE SumSeq(_)
SumSeq(lst) == IF lst = << >> THEN 0 ELSE lst[1] + SumSeq(Tail(lst))

\* Mutant of average: one too many in the divisor.
average_OffByOne(lst) ==
    LET elements == Len(lst)
    IN IF elements = 0 THEN Zero ELSE Frac(SumSeq(lst), Len(lst) + 1)

\* average(lst): 0 for an empty list, else sum(lst) / len(lst).
average(lst) ==
    LET elements == Len(lst)
    IN IF elements = 0 THEN Zero ELSE Frac(SumSeq(lst), Len(lst))

\* x / k for a fraction x.
FracDiv(x, k) == Frac(x.n, x.d * k)

\* DashImage.__init__ with bar_chart = True: 24 bars of height 0 for the
\* actual and for the estimated values; nothing shown yet.
NewImage ==
    [ graph_bars_actual |-> [h \in Hours |-> Zero],
      graph_bars_estimate |-> [h \in Hours |-> Zero],
      shown |-> 0 ]

\* Nothing was done yet but the construction of "A".
FirstStep == [op |-> "construct", self |-> "A", topic |-> "", handled |-> 0]

\* The stream has delivered nothing yet.
ClockStart == [day |-> 1, minute |-> 0, refreshes |-> 0, completed |-> << >>]

\* The process start of __main__: one DisplayData is constructed.
Init ==
    /\ \E forecast \in BOOLEAN, minutes_between_updates \in Intervals :
          LET w == Construct([ obj |-> [i \in Ids |-> NotConstructed],
                               cls |-> ClassBody ],
                             "A", forecast, minutes_between_updates)
          IN obj = w.obj /\ cls = w.cls
    /\ entry \in {"append_solar_value", "append_solar_value_normalized"}
    /\ log = << >>
    /\ image = NewImage
    /\ step = FirstStep
    /\ clock = ClockStart

Ingested(self, timestamp, value, provider, r) ==
    /\ obj' = r.w.obj
    /\ cls' = r.w.cls
    /\ log' = Append(log, LogEntry(World, self, timestamp, value, provider, r))
    /\ step' = [step EXCEPT !.op = "ingest", !.self = self, !.topic = ""]
    /\ UNCHANGED << entry, image, clock >>

AppendSolarValue(self) ==
    /\ entry = "append_solar_value"
    /\ obj[self].constructed
    /\ Len(log) < MaxCalls
    /\ \E timestamp \in Timestamps, value \in Values, provider \in ProviderResults :
          Ingested(self, timestamp, value, provider,
                   append_solar_value(World, self, timestamp, value, provider))

AppendSolarValueNormalized(self) ==
    /\ entry = "append_solar_value_normalized"
    /\ obj[self].constructed
    /\ Len(log) < MaxCalls
    /\ \E timestamp \in Timestamps, value \in Values, provider \in ProviderResults :
          Ingested(self, timestamp, value, provider,
                   append_solar_value_normalized(World, self, timestamp, value, provider))

Next ==
    \E self \in Ids :
        \/ AppendSolarValue(self)
        \/ AppendSolarValueNormalized(self)

Spec == Init /\ [][Next]_vars

\* --------------------------------------------------------- message handler

\* datetime.now(disp_data.timezone) at the arrival of a message.
ArrivalTimes ==
    { [hour |-> 0, minute |-> 0],
      [hour |-> 0, minute |-> 1] }

\* json.loads(message.payload), by topic.
Payloads(topic) ==
    IF topic = TOPIC_SOLAR THEN { [P |-> p, DC |-> 500] : p \in {100, 200, 300} }
    ELSE IF topic = TOPIC_NETTO THEN { [PI |-> 300, PE |-> 0], [PI |-> 0, PE |-> 300] }
    ELSE { [DC |-> 500] }

\* What the provider hands back while messages are handled.
ProviderResultsOnMessage == { FetchFailed, [ok |-> TRUE, watts |-> WattsToday] }

\* DashImage.draw_graph with the bars of bar_chart = True.
draw_graph(img, w, self) ==
    [img EXCEPT
        !.graph_bars_actual =
            [i \in Hours |->
                FracDiv(average(w.obj[self].solar_hourly_values[i + 1]), MAX_SOLAR_POWER)],
        !.graph_bars_estimate =
            [i \in Hours |-> w.cls.solar_hourly_prediction_values[i + 1]]]

\* DashImage.render: draw the graph and show the image.
render(img, w, self) ==
    [draw_graph(img, w, self) EXCEPT !.shown = @ + 1]

\* Mutant of on_message: the image is rendered for every solar message,
\* whatever the ingest returned.
on_message_AlwaysRenders(w, img, self, topic, data, now, provider) ==
    IF topic = TOPIC_SOLAR
    THEN LET w1 == [w EXCEPT !.obj[self].solar_current = data.P,
                             !.obj[self].solar_today = data.DC]
             r == append_solar_value_normalized(w1, self, now, data.P, provider)
         IN [ w |-> r.w, ingest |-> r, image |-> render(img, r.w, self) ]
    ELSE IF topic = TOPIC_NETTO
    THEN [ w |-> [w EXCEPT !.obj[self].netto_current = data.PI - data.PE,
                           !.obj[self].import_current = data.PI,
                           !.obj[self].export_current = data.PE],
           ingest |-> NotCalled(w), image |-> img ]
    ELSE IF topic = TOPIC_IMPORT
    THEN [ w |-> [w EXCEPT !.obj[self].import_today = data.DC],
           ingest |-> NotCalled(w), image |-> img ]
    ELSE [ w |-> [w EXCEPT !.obj[self].export_today = data.DC],
           ingest |-> NotCalled(w), image |-> img ]

\* on_message.  ingest: what append_solar_value_normalized returned, for a
\* solar message.
on_message(w, img, self, topic, data, now, provider) ==
    IF topic = TOPIC_SOLAR
    THEN LET w1 == [w EXCEPT !.obj[self].solar_current = data.P,
                             !.obj[self].solar_today = data.DC]
             r == append_solar_value_normalized(w1, self, now, data.P, provider)
         IN [ w |-> r.w, ingest |-> r,
              image |-> IF r.ret THEN render(img, r.w, self) ELSE img ]
    ELSE IF topic = TOPIC_NETTO
    THEN [ w |-> [w EXCEPT !.obj[self].netto_current = data.PI - data.PE,
                           !.obj[self].import_current = data.PI,
                           !.obj[self].export_current = data.PE],
           ingest |-> NotCalled(w), image |-> img ]
    ELSE IF topic = TOPIC_IMPORT
    THEN [ w |-> [w EXCEPT !.obj[self].import_today = data.DC],
           ingest |-> NotCalled(w), image |-> img ]
    ELSE [ w |-> [w EXCEPT !.obj[self].export_today = data.DC],
           ingest |-> NotCalled(w), image |-> img ]

\* One message of the subscription is delivered to on_message.
OnMessage(topic) ==
    /\ step.handled < MaxMessages
    /\ \E data \in Payloads(topic), now \in ArrivalTimes,
          provider \in ProviderResultsOnMessage :
          LET m == on_message(World, image, "A", topic, data, now, provider)
          IN /\ obj' = m.w.obj
             /\ cls' = m.w.cls
             /\ image' = m.image
             /\ log' = IF topic = TOPIC_SOLAR
                       THEN Append(log, LogEntry(World, "A", now, data.P, provider, m.ingest))
                       ELSE log
    /\ step' = [op |-> "message", self |-> "A", topic |-> topic,
                handled |-> step.handled + 1]
    /\ UNCHANGED << entry, clock >>

\* The process as __main__ starts it without --simulate: the instance is
\* driven by on_message alone, which ingests through
\* append_solar_value_normalized.
InitMessages == Init /\ entry = "append_solar_value_normalized"

SolarMessage == OnMessage(TOPIC_SOLAR)

NettoMessage == OnMessage(TOPIC_NETTO)

ImportMessage == OnMessage(TOPIC_IMPORT)

ExportMessage == OnMessage(TOPIC_EXPORT)

NextMessages == SolarMessage \/ NettoMessage \/ ImportMessage \/ ExportMessage

SpecMessages == InitMessages /\ [][NextMessages]_vars

\* -------------------------------------------------- the renderer's snapshot

\* What DashImage.draw_graph reads of the instance the program constructs.
DaySeriesMinute == Get(World, "A", "solar_values_minute")

DaySeriesPower == Get(World, "A", "solar_values_power")

ForecastSeriesMinute == Get(World, "A", "solar_predictions_minute")

ForecastSeriesPower == Get(World, "A", "solar_predictions_power")

HourlyBuckets == obj["A"].solar_hourly_values

\* data.solar_hourly_prediction_values[i] for i in range(0, 24)
ForecastHourlySnapshot == [h \in Hours |-> cls.solar_hourly_prediction_values[h + 1]]

\* ---------------------------------------------------- vocabulary of claims

Last == log[Len(log)]

\* The step is one ingest call.
IngestStep == Len(log') = Len(log) + 1

Minute(k) == MinuteInTheDay(log[k].timestamp)

\* The entries of a provider result that are dated today, in provider order.
TodayEntries(watts) == SelectSeq(watts, LAMBDA e : e.today)

\* Only the current sample's value, in the bucket of its hour.
BucketsHoldOnly(timestamp, value) ==
    /\ Len(HourlyBuckets) = Cardinality(Hours)
    /\ \A h \in Hours :
          HourlyBuckets[h + 1] = IF h = timestamp.hour THEN << value >> ELSE << >>

\* The day series is the single current sample.
SeriesIsOnly(timestamp, value) ==
    /\ Len(DaySeriesMinute) = 1 /\ Len(DaySeriesPower) = 1
    /\ DaySeriesMinute[1].n = MinuteInTheDay(timestamp)
    /\ DaySeriesPower[1].n = value

\* ----------------------------------------------------------------------- C1

\* C1 as stated: after an ingest whose minute of day is below
\* last_solar_time, the day series is exactly the current sample, the
\* forecast series is empty (so the forecast counts as not fetched), and the
\* hourly buckets hold nothing but the current sample's value.
C1_RolloverLeavesForecastEmpty ==
    (Len(log) > 0 /\ Last.rollover) =>
        /\ SeriesIsOnly(Last.timestamp, Last.value)
        /\ BucketsHoldOnly(Last.timestamp, Last.value)
        /\ ForecastSeriesMinute = << >>
        /\ ForecastSeriesPower = << >>

\* C1 amended: after an ingest whose minute of day is below last_solar_time,
\* the day series is exactly the current sample, the hourly buckets hold
\* nothing but the current sample's value, and the forecast series holds
\* nothing from before the ingest: every entry it has is an entry dated today
\* of the provider result handed to this same ingest, in provider order, so it
\* is empty whenever this ingest did not call the provider or was given
\* nothing dated today.
C1_RolloverReset ==
    (Len(log) > 0 /\ Last.rollover) =>
        LET today == TodayEntries(Last.provider.watts) IN
        /\ SeriesIsOnly(Last.timestamp, Last.value)
        /\ BucketsHoldOnly(Last.timestamp, Last.value)
        /\ Len(ForecastSeriesMinute) <= Len(today)
        /\ Len(ForecastSeriesPower) <= Len(today)
        /\ \A i \in 1 .. Len(ForecastSeriesMinute) :
              ForecastSeriesMinute[i] = Frac(today[i].hour * 60 + 30, MINUTES_IN_A_DAY)
        /\ \A i \in 1 .. Len(ForecastSeriesPower) :
              ForecastSeriesPower[i] = Frac(today[i].est, MAX_SOLAR_POWER)

\* A second-day ingest: the first day merged a forecast and held two samples,
\* then time went backward and the series were reset.
C1_Witness ==
    /\ Len(log) = 3
    /\ log[1].called /\ ~log[1].failed /\ log[1].provider.watts = WattsToday
    /\ ~log[2].rollover
    /\ Last.rollover
    /\ ForecastSeriesMinute = << >>
    /\ Len(DaySeriesMinute) = 1

\* ----------------------------------------------------------------------- C2

\* The minute of the last call before call k that returned true, else None.
RECURSIVE LastRefreshBefore(_)
LastRefreshBefore(k) ==
    IF k <= 1 THEN None
    ELSE IF log[k - 1].ret THEN Minute(k - 1) ELSE LastRefreshBefore(k - 1)

\* C2: ingest returns true on the first call of a fresh accumulator, and on a
\* later call exactly when its minute of day is at least the minute of the
\* last call that returned true plus minutes_between_updates.
C2_RefreshGating ==
    \A k \in 1 .. Len(log) :
        log[k].ret <=>
            \/ LastRefreshBefore(k) = None
            \/ Minute(k) >= LastRefreshBefore(k) + obj["A"].minutes_between_updates

\* ----------------------------------------------------------------------- C3

\* No rollover was detected by the calls j+1 .. k.
SameDayBetween(j, k) == \A i \in (j + 1) .. k : ~log[i].rollover

\* C3: once a call of the provider has returned and been merged without an
\* exception, no later ingest calls the provider until a rollover is
\* detected, also when the result held no entry dated today.
C3_FetchedOncePerDay ==
    \A j, k \in 1 .. Len(log) :
        (j < k /\ log[j].called /\ ~log[j].failed /\ SameDayBetween(j, k))
            => ~log[k].called

\* ----------------------------------------------------------------------- C4

\* The last call reached the forecast-merge step: append_solar_value runs it
\* when the refresh is due, append_solar_value_normalized on every call.
ReachedMerge == entry = "append_solar_value_normalized" \/ Last.ret

\* What the renderer reads of the hourly forecast, hours 0..23, is unchanged.
SnapshotUnchanged == ForecastHourlySnapshot' = ForecastHourlySnapshot

\* C4: when an exception is raised while the provider result is fetched or
\* processed, the forecast series and the hourly forecast snapshot are what
\* they were before the attempt (the attempt is only made on an empty
\* forecast series), the forecast stays not fetched, and the next ingest that
\* reaches the merge step calls the provider again.
C4_FailureIsStateNeutral ==
    [][ IngestStep =>
          /\ (Last'.called /\ Last'.failed) =>
                /\ ForecastSeriesMinute' = << >>
                /\ ForecastSeriesPower' = << >>
                /\ SnapshotUnchanged
          /\ (Len(log) > 0 /\ Last.called /\ Last.failed
                /\ obj'["A"].forecast /\ ReachedMerge')
                => Last'.called
      ]_vars

\* ----------------------------------------------------------------------- C5

\* The ingest entry point in use.
Ingest(w, self, timestamp, value, provider) ==
    IF entry = "append_solar_value"
    THEN append_solar_value(w, self, timestamp, value, provider)
    ELSE append_solar_value_normalized(w, self, timestamp, value, provider)

\* The same ingest on the same accumulator constructed with forecast = False.
ForecastDisabled(timestamp, value) ==
    Ingest([World EXCEPT !.obj["A"].forecast = FALSE], "A", timestamp, value, FetchFailed)

\* C5: an ingest during which the forecast merge fails returns normally, and
\* its return value, day series, hourly buckets, last_solar_time and
\* last_update_time are those of the same ingest with the forecast disabled.
C5_FailureNeverReachesCaller ==
    [][ (IngestStep /\ Last'.called /\ Last'.failed) =>
          LET d == ForecastDisabled(Last'.timestamp, Last'.value) IN
          /\ ~Last'.raised
          /\ Last'.ret = d.ret
          /\ DaySeriesMinute' = Get(d.w, "A", "solar_values_minute")
          /\ DaySeriesPower' = Get(d.w, "A", "solar_values_power")
          /\ HourlyBuckets' = d.w.obj["A"].solar_hourly_values
          /\ obj'["A"].last_solar_time = d.w.obj["A"].last_solar_time
          /\ obj'["A"].last_update_time = d.w.obj["A"].last_update_time
      ]_vars

\* The provider failed during an ingest that signalled a refresh, after an
\* earlier sample of the same day.
C5_Witness ==
    /\ Len(log) >= 2
    /\ Last.called /\ Last.failed /\ Last.ret /\ ~Last.rollover
    /\ Len(DaySeriesMinute) = 2
    /\ obj["A"].last_solar_time = MinuteInTheDay(Last.timestamp)

\* ----------------------------------------------------------------------- C6

\* Every sample so far came at or after the minute of the one before it.
NonDecreasingMinutes == \A k \in 1 .. (Len(log) - 1) : Minute(k) <= Minute(k + 1)

\* a <= b for two stored fractions.
FracLeq(a, b) == a.n * b.d <= b.n * a.d

\* C6: while the minutes of day ingested on a fresh accumulator are
\* non-decreasing (equal minutes included), the day series has one entry per
\* ingested sample, in arrival order, with non-decreasing offsets.
C6_SameDayAccumulation ==
    NonDecreasingMinutes =>
        /\ Len(DaySeriesMinute) = Len(log)
        /\ Len(DaySeriesPower) = Len(log)
        /\ \A k \in 1 .. Len(log) :
              /\ DaySeriesMinute[k].n = Minute(k)
              /\ DaySeriesPower[k].n = log[k].value
        /\ \A k \in 1 .. (Len(log) - 1) :
              FracLeq(DaySeriesMinute[k], DaySeriesMinute[k + 1])

\* Three samples of one day, two of them in the same minute with different
\* values, all retained.
C6_Witness ==
    /\ Len(log) = 3
    /\ NonDecreasingMinutes
    /\ Minute(1) = Minute(2) /\ log[1].value # log[2].value
    /\ Minute(2) < Minute(3)
    /\ Len(DaySeriesMinute) = 3

\* ----------------------------------------------------------------------- C7

\* A forecast merge of the last call completed without exception.
LastMergeSucceeded == Last.called /\ ~Last.failed

\* C7: after an ingest that detects a rollover, and in which no forecast
\* merge succeeds, the renderer reads 0 at every hour 0..23 of the hourly
\* forecast snapshot.
C7_RolloverClearsSnapshot ==
    (Len(log) > 0 /\ Last.rollover /\ ~LastMergeSucceeded) =>
        \A h \in Hours : ForecastHourlySnapshot[h].n = 0

\* ----------------------------------------------------------------------- C8

\* C8: an ingest that returns false does not call the provider and leaves
\* the forecast series and the hourly forecast snapshot alone, but for the
\* clearing of a rollover.
C8_MergeOnlyOnRefresh ==
    [][ (IngestStep /\ ~Last'.ret) =>
          /\ ~Last'.called
          /\ ForecastSeriesMinute' = IF Last'.rollover THEN << >> ELSE ForecastSeriesMinute
          /\ ForecastSeriesPower' = IF Last'.rollover THEN << >> ELSE ForecastSeriesPower
          /\ \/ SnapshotUnchanged
             \/ Last'.rollover /\ \A h \in Hours : ForecastHourlySnapshot'[h].n = 0
      ]_vars

\* ----------------------------------------------------------------------- C9

\* C9: an accumulator constructed with forecast = False never calls the
\* provider, its forecast series stays empty and every entry of the hourly
\* forecast snapshot stays 0.
C9_ForecastDisabledIsNoOp ==
    (~obj["A"].forecast) =>
        /\ \A k \in 1 .. Len(log) : ~log[k].called
        /\ ForecastSeriesMinute = << >>
        /\ ForecastSeriesPower = << >>
        /\ \A i \in 1 .. Len(cls.solar_hourly_prediction_values) :
              cls.solar_hourly_prediction_values[i].n = 0

\* Forecast disabled, three ingests that each would reach the merge step,
\* the last one after a rollover.
C9_Witness ==
    /\ ~obj["A"].forecast
    /\ Len(log) = 3
    /\ log[2].ret
    /\ Last.rollover
    /\ ForecastSeriesMinute = << >>

\* ---------------------------------------------------------------------- C10

\* The samples of the end-to-end trace: minute 0 value 0, minute 1 value
\* 4000, minute 0 of the next day value 100.
EndToEndSamples ==
    << [timestamp |-> [hour |-> 0, minute |-> 0], value |-> 0],
       [timestamp |-> [hour |-> 0, minute |-> 1], value |-> 4000],
       [timestamp |-> [hour |-> 0, minute |-> 0], value |-> 100] >>

IsEndToEndTrace ==
    /\ obj["A"].minutes_between_updates = 1
    /\ Len(log) = Len(EndToEndSamples)
    /\ \A k \in 1 .. Len(log) :
          /\ log[k].timestamp = EndToEndSamples[k].timestamp
          /\ log[k].value = EndToEndSamples[k].value

\* C10: with minutes_between_updates = 1 on a fresh accumulator, the three
\* samples signal a refresh on the first and second call and not on the
\* third, and leave the day series as the single entry (0, 100 / capacity).
C10_EndToEnd ==
    IsEndToEndTrace =>
        /\ log[1].ret /\ log[2].ret /\ ~log[3].ret
        /\ Len(DaySeriesMinute) = 1 /\ Len(DaySeriesPower) = 1
        /\ DaySeriesMinute[1].n = 0
        /\ DaySeriesPower[1].n * MAX_SOLAR_POWER = 100 * DaySeriesPower[1].d

\* ---------------------------------------------------------------------- C11

\* C11: an ingest that follows another sample is handled as a rollover (the
\* day series restarts as the current sample alone, the buckets hold only its
\* value) exactly when its minute of day is strictly below the minute of day
\* of the previously ingested sample; otherwise the sample is appended to the
\* series as it stands and to its hour's bucket.  A timestamp stands for its
\* time of day on any date: the ingests read hour and minute only.
C11_RolloverIffTimeWentBackward ==
    [][ (IngestStep /\ Len(log) > 0) =>
          IF MinuteInTheDay(Last'.timestamp) < MinuteInTheDay(Last.timestamp)
          THEN /\ Last'.rollover
               /\ SeriesIsOnly(Last.timestamp, Last.value)'
               /\ BucketsHoldOnly(Last.timestamp, Last.value)'
          ELSE /\ ~Last'.rollover
               /\ Len(DaySeriesMinute') = Len(DaySeriesMinute) + 1
               /\ SubSeq(DaySeriesMinute', 1, Len(DaySeriesMinute)) = DaySeriesMinute
               /\ SubSeq(DaySeriesPower', 1, Len(DaySeriesPower)) = DaySeriesPower
               /\ \A h \in Hours :
                     HourlyBuckets'[h + 1] =
                        IF h = Last'.timestamp.hour
                        THEN Append(HourlyBuckets[h + 1], Last'.value)
                        ELSE HourlyBuckets[h + 1]
      ]_vars

\* A sample after minute 0, then minute 0 (a rollover), then minute 0 again
\* (no rollover: two samples in the series).
C11_Witness ==
    /\ Len(log) = 3
    /\ Minute(1) > 0 /\ Minute(2) = 0 /\ Minute(3) = 0
    /\ log[2].rollover /\ ~log[3].rollover
    /\ Len(DaySeriesMinute) = 2

\* ---------------------------------------------------------------------- C12

\* The entries of a provider result that set hour h of the hourly forecast:
\* dated today, at minute 0 of hour h.
OnTheHour(watts, h) ==
    SelectSeq(watts, LAMBDA e : e.today /\ e.minute = 0 /\ e.hour = h)

\* C12: a merge that completes sets the hourly forecast of hour h to
\* est / capacity for the provider entry dated today at minute 0 of hour h,
\* and entries at any other minute or of any other date change no hour.
C12_SnapshotPopulation ==
    [][ (IngestStep /\ Last'.called /\ ~Last'.failed) =>
          \A h \in Hours :
              LET hits == OnTheHour(Last'.provider.watts, h) IN
              ForecastHourlySnapshot'[h] =
                 IF Len(hits) > 0
                 THEN Frac(hits[Len(hits)].est, MAX_SOLAR_POWER)
                 ELSE ForecastHourlySnapshot[h]
      ]_vars

\* A merged result with an entry at 00:00 today, one at 01:30 today and one
\* at 01:00 of another day: hour 0 is set, hour 1 is not.
C12_Witness ==
    /\ Len(log) > 0
    /\ Last.called /\ ~Last.failed /\ Last.provider.watts = WattsToday
    /\ ForecastHourlySnapshot[0] = Frac(4000, MAX_SOLAR_POWER)
    /\ ForecastHourlySnapshot[1] = Zero

\* ---------------------------------------------------------------------- C13

\* C13: after a merge that completes, the forecast series has one entry per
\* provider entry dated today, in provider order, with offset
\* (hour * 60 + 30) / 1440 and value est / capacity; entries of other dates
\* add nothing.
C13_ForecastSeriesContent ==
    (Len(log) > 0 /\ Last.called /\ ~Last.failed) =>
        LET today == TodayEntries(Last.provider.watts) IN
        /\ Len(ForecastSeriesMinute) = Len(today)
        /\ Len(ForecastSeriesPower) = Len(today)
        /\ \A i \in 1 .. Len(today) :
              /\ ForecastSeriesMinute[i] = Frac(today[i].hour * 60 + 30, MINUTES_IN_A_DAY)
              /\ ForecastSeriesPower[i] = Frac(today[i].est, MAX_SOLAR_POWER)

\* A merged result of three entries, two of them dated today.
C13_Witness ==
    /\ Len(log) > 0
    /\ Last.called /\ ~Last.failed
    /\ Len(Last.provider.watts) = 3
    /\ Len(ForecastSeriesMinute) = 2
    /\ ForecastSeriesMinute[1] = Frac(30, MINUTES_IN_A_DAY)

\* ---------------------------------------------------------------------- C14

\* The step showed the image once more.
Rendered == image'.shown = image.shown + 1

\* C14: handling a message renders the image exactly when the message is a
\* solar sample whose ingest returned true; a net-meter, import-total or
\* export-total message, and a solar sample whose ingest returned false,
\* leave the image as it is.
C14_RenderOnlyOnRefresh ==
    [][ step'.op = "message" =>
          IF step'.topic = TOPIC_SOLAR /\ Len(log') = Len(log) + 1 /\ Last'.ret
          THEN Rendered
          ELSE image' = image
      ]_vars

\* A solar sample that was not signalled, one that was (the single render),
\* then a net-meter message.
C14_Witness ==
    /\ step.op = "message" /\ step.topic = TOPIC_NETTO /\ step.handled = 3
    /\ Len(log) = 2 /\ ~log[1].ret /\ log[2].ret
    /\ image.shown = 1
    /\ obj["A"].netto_current = 300

\* ---------------------------------------------------------------------- C15

\* The bucket of the spec's example.
ExampleBucket == << 100, 300, 200 >>

IngestOf(i) == Len(log) - Len(DaySeriesMinute) + i

\* Entry i of DaySeries is the sample of its ingest over the divisors dm, dp.
StoredOver(i, dm, dp) ==
    /\ DaySeriesMinute[i] = Frac(Minute(IngestOf(i)), dm)
    /\ DaySeriesPower[i] = Frac(log[IngestOf(i)].value, dp)

\* Entry i of DaySeries has offset and value within [0,1].
WithinUnit(i) ==
    /\ 0 <= DaySeriesMinute[i].n /\ DaySeriesMinute[i].n < DaySeriesMinute[i].d
    /\ 0 <= DaySeriesPower[i].n /\ DaySeriesPower[i].n <= DaySeriesPower[i].d

\* C16 as stated: whichever entry point ingests, every sample retained in
\* DaySeries is minuteOfDay/1440 and rawValue/capacity, within [0,1].
C16_NormalizedByEveryIngest ==
    /\ Len(DaySeriesMinute) = Len(DaySeriesPower)
    /\ Len(DaySeriesMinute) <= Len(log)
    /\ \A i \in 1 .. Len(DaySeriesMinute) :
          StoredOver(i, MINUTES_IN_A_DAY, MAX_SOLAR_POWER) /\ WithinUnit(i)

\* C16 (amended): the samples ingested by append_solar_value_normalized are
\* retained as minuteOfDay/1440 and rawValue/capacity, within [0,1]; the
\* samples ingested by append_solar_value are retained as the minute of the
\* day and the raw value themselves.
C16_NormalizedRange ==
    /\ Len(DaySeriesMinute) = Len(DaySeriesPower)
    /\ Len(DaySeriesMinute) <= Len(log)
    /\ \A i \in 1 .. Len(DaySeriesMinute) :
          IF entry = "append_solar_value_normalized"
          THEN StoredOver(i, MINUTES_IN_A_DAY, MAX_SOLAR_POWER) /\ WithinUnit(i)
          ELSE StoredOver(i, 1, 1)

\* After a rollover the normalized entry point retains 01:00 with 4000 W as
\* 60/1440 and 4000/8000.
C16_Witness ==
    /\ entry = "append_solar_value_normalized"
    /\ Len(log) = 3 /\ Len(DaySeriesMinute) = 2
    /\ DaySeriesMinute[2] = Frac(60, MINUTES_IN_A_DAY)
    /\ DaySeriesPower[2] = Frac(4000, MAX_SOLAR_POWER)

\* ---------------------------------------------------------------------- C18

RECURSIVE SamplesOfHour(_, _)
\* The raw values of the first i samples of DaySeries whose hour is h, in
\* arrival order.  A sample's numerators are its minute of the day and its
\* raw value.
SamplesOfHour(h, i) ==
    IF i = 0 THEN << >>
    ELSE IF DaySeriesMinute[i].n \div 60 = h
         THEN Append(SamplesOfHour(h, i - 1), DaySeriesPower[i].n)
         ELSE SamplesOfHour(h, i - 1)

RECURSIVE BucketTotal(_)
\* The number of values in the buckets of the hours below h.
BucketTotal(h) ==
    IF h = 0 THEN 0 ELSE BucketTotal(h - 1) + Len(HourlyBuckets[h])

\* C18: in every reachable state the 24 hourly buckets hold as many values as
\* DaySeries has samples, and the bucket of hour h holds exactly the raw
\* values of the DaySeries samples whose hour is h, in arrival order.
C18_BucketsMatchSeries ==
    /\ Len(DaySeriesMinute) = Len(DaySeriesPower)
    /\ BucketTotal(24) = Len(DaySeriesMinute)
    /\ \A h \in Hours : HourlyBuckets[h + 1] = SamplesOfHour(h, Len(DaySeriesMinute))

\* The first ingest took the rollover branch and two more samples of the day
\* followed: two values in the bucket of hour 0 and one in that of hour 1.
C18_Witness ==
    /\ Len(log) = 3 /\ ~log[2].rollover /\ ~log[3].rollover
    /\ HourlyBuckets[1] = << 100, 4000 >>
    /\ HourlyBuckets[2] = << 100 >>
    /\ Len(DaySeriesMinute) = 3

\* ------------------------------------------------------------ two instances

\* The minutes_between_updates a caller hands to DisplayData(...): __init__
\* takes any number.
ConfiguredIntervals == {-1, 0, 5}

\* The raw watt values ingested while two instances live.
InstanceValues == {100}

\* b = DisplayData(forecast, minutes_between_updates), beside the instance A.
ConstructInstance ==
    /\ ~obj["B"].constructed
    /\ \E forecast \in BOOLEAN, minutes_between_updates \in ConfiguredIntervals :
          LET w == Construct(World, "B", forecast, minutes_between_updates)
          IN obj' = w.obj /\ cls' = w.cls
    /\ step' = [step EXCEPT !.op = "construct", !.self = "B", !.topic = ""]
    /\ UNCHANGED << entry, log, image, clock >>

\* One ingest, forecast merge included, on either instance.
InstanceIngest(self) ==
    /\ obj[self].constructed
    /\ Len(log) < MaxCalls
    /\ \E timestamp \in ArrivalTimes, value \in InstanceValues,
          provider \in ProviderResultsOnMessage :
          Ingested(self, timestamp, value, provider,
                   Ingest(World, self, timestamp, value, provider))

NextInstances ==
    \/ ConstructInstance
    \/ \E self \in Ids : InstanceIngest(self)

SpecInstances == Init /\ [][NextInstances]_vars

\* ---------------------------------------------------------------------- C17

\* C17: no accumulator exists with a non-positive refresh interval, since
\* constructing one fails with an error.
C17_ConstructionValidates ==
    \A self \in Ids :
        obj[self].constructed => obj[self].minutes_between_updates > 0

\* ---------------------------------------------------------------------- C20

\* What the renderer reads through an instance: the day series, the hourly
\* buckets, the forecast series and the hourly forecast snapshot, whole.
SnapshotOf(self) ==
    [ solar_values_minute |-> Get(World, self, "solar_values_minute"),
      solar_values_power |-> Get(World, self, "solar_values_power"),
      solar_hourly_values |-> obj[self].solar_hourly_values,
      solar_predictions_minute |-> Get(World, self, "solar_predictions_minute"),
      solar_predictions_power |-> Get(World, self, "solar_predictions_power"),
      solar_hourly_prediction_values |->
          Get(World, self, "solar_hourly_prediction_values") ]

\* C20: constructing B, and every ingest and forecast merge on B, leaves all
\* of A's snapshot as it was, the length of the hourly forecast snapshot
\* included.
C20_InstanceIsolation ==
    [][ step'.self = "B" => SnapshotOf("A")' = SnapshotOf("A") ]_vars

\* ------------------------------------------------- a sample for every minute

\* The timestamp of the stream's next sample.
StreamTimestamp == [hour |-> clock.minute \div 60, minute |-> clock.minute % 60]

\* The raw watt value of the stream's samples.
StreamValue == 100

\* The stream delivers the sample of the next minute and the instance
\* ingests it.  log keeps the last ingest only; clock counts, day by day, the
\* ingests that returned true.
StreamSample ==
    /\ clock.day <= MaxDays
    /\ \E provider \in ProviderResultsOnMessage :
          LET r == Ingest(World, "A", StreamTimestamp, StreamValue, provider)
              refreshes == clock.refreshes + (IF r.ret THEN 1 ELSE 0)
          IN /\ obj' = r.w.obj
             /\ cls' = r.w.cls
             /\ log' = << LogEntry(World, "A", StreamTimestamp, StreamValue, provider, r) >>
             /\ clock' = IF clock.minute + 1 = MINUTES_IN_A_DAY
                         THEN [ day |-> clock.day + 1, minute |-> 0, refreshes |-> 0,
                                completed |-> Append(clock.completed, refreshes) ]
                         ELSE [clock EXCEPT !.minute = @ + 1, !.refreshes = refreshes]
    /\ step' = [step EXCEPT !.op = "stream", !.self = "A", !.topic = ""]
    /\ UNCHANGED << entry, image >>

NextStream == StreamSample

SpecStream == Init /\ [][NextStream]_vars

\* ---------------------------------------------------------------------- C19

\* C19, on the finite runs of the stream: every day the stream has completed
\* had an ingest that returned true, for every configured interval.
C19_RefreshEveryDay ==
    \A d \in 1 .. Len(clock.completed) : clock.completed[d] > 0

\* ---------------------------------------------------------------------- C21

\* C21: in every reachable state there are exactly 24 hourly buckets and the
\* hourly forecast snapshot has exactly 24 entries.
C21_FixedSizeHourly ==
    /\ Len(HourlyBuckets) = Cardinality(Hours)
    /\ Len(Get(World, "A", "solar_hourly_prediction_values")) = Cardinality(Hours)

\* ---------------------------------------------------------------------- C22

\* C22 as stated: the first ingest on a freshly constructed accumulator does
\* not take the rollover branch.
C22_FirstSampleIsPlainAppend ==
    Len(log) > 0 => ~log[1].rollover

\* C22 (amended): the first ingest on a freshly constructed accumulator, for
\* any minute of the day, takes the rollover branch: it runs the reset of the
\* buckets and the forecast state and leaves the day series holding exactly
\* this sample and the buckets holding only its value.
C22_FirstSampleTakesRollover ==
    [][ (IngestStep /\ Len(log) = 0) =>
          /\ Last'.rollover
          /\ SeriesIsOnly(Last.timestamp, Last.value)'
          /\ BucketsHoldOnly(Last.timestamp, Last.value)'
          /\ Len(ForecastSeriesMinute') > 0 => Last'.called
      ]_vars

\* The first ingest arrived at 01:00 and went through the rollover branch.
C22_Witness ==
    /\ Len(log) = 1
    /\ Minute(1) = 60
    /\ log[1].rollover
    /\ Len(DaySeriesMinute) = 1
    /\ HourlyBuckets[2] = << log[1].value >>

====
